---------------------------- MODULE Spec2Model ----------------------------
(***************************************************************************)
(* Model of the quality-gated article pipeline of humanizer_claude_alt.py  *)
(* (and its twin humanizer_claude.py): generate_article drives three       *)
(* generation-service passes, evaluates the result with evaluate_quality,  *)
(* and repairs it in a bounded loop followed by a forced-expansion step.   *)
(* An evaluation that raises ends the run without a result.  The last      *)
(* sections model the local-model pipeline humanizer_pipeline_lang.py and  *)
(* two runs of generate_article side by side.                               *)
(*                                                                         *)
(* A document is a sequence of lines.  A line is a record of what the      *)
(* source's regular expressions measure on it: its kind and heading name,  *)
(* the token count of each of its sentences, and the occurrences of the    *)
(* closed vocabularies (first person, second person, formal address,       *)
(* numbers, minutes, equipment, ...).  The occurrences of the run's        *)
(* primary keyword and destination are marked relative to the run.         *)
(***************************************************************************)
EXTENDS Integers, Sequences, FiniteSets, TLC

(***************************************************************************)
(* Lines                                                                   *)
(***************************************************************************)

\* A line no vocabulary occurs in.  sents: tokens of each sentence of the
\* line; types: lowercased tokens not seen on an earlier line; fpAt / kwAt:
\* token offset in the line of the first first-person token / of the end of
\* the first occurrence of the primary keyword (0: none); mins: the minute
\* mentions, <<lo, hi>> for a range and <<v>> for a single value;
\* portions: the number after "Portionen" (-1: none); qlen: length of the
\* quoted value of a front-matter field (0: none); digits: the digits of the
\* longest numeral that is an end of a minute range on the line (0: no
\* range).
L0 ==
    [kind |-> "text", name |-> "", tag |-> "", sents |-> << >>, types |-> 0,
     fp |-> 0, fpAt |-> 0, kwAt |-> 0, sp |-> 0, formal |-> 0, nums |-> 0,
     banned |-> FALSE, dest |-> FALSE, destEarly |-> FALSE, s1Dest |-> FALSE,
     s1Bridge |-> FALSE, mins |-> << >>, kocher |-> 0, pfanne |-> 0,
     oven |-> 0, bowls |-> 0, pots |-> 0, portions |-> -1, qlen |-> 0,
     digits |-> 0]

Ln(kind, name, tag, sents, types) ==
    [L0 EXCEPT !.kind = kind, !.name = name, !.tag = tag, !.sents = sents,
               !.types = types]

\* "---": the hyphen is a token character of WORD_RE, so the line is one token.
Delim(types) == Ln("delim", "", "", <<1>>, types)

Step(tag, sents, types) ==
    [Ln("num", "", tag, sents, types) EXCEPT !.fp = 1, !.fpAt = 1, !.nums = 1]

(***************************************************************************)
(* The reference article: every check of evaluate_quality passes on it     *)
(* for the reference run (700 to 1000 words, destination given, details    *)
(* "Campingkocher, 12-14 Min, wenig Abwasch").                             *)
(***************************************************************************)
GoodDoc ==
    << Delim(1),
       [Ln("yaml", "seo_title", "title", <<6>>, 5) EXCEPT !.qlen = 26],
       [Ln("yaml", "meta_description", "meta", <<19>>, 14) EXCEPT !.qlen = 120],
       Ln("yaml", "slug", "", <<2>>, 2),
       Ln("yaml", "primary_keyword", "", <<4>>, 2),
       Ln("yaml", "secondary_keywords", "", <<6>>, 5),
       Delim(0),
       [Ln("h1", "", "h1", <<5>>, 2) EXCEPT !.kwAt = 2],
       Ln("h2", "Einleitung", "", <<1>>, 1),
       [Ln("text", "", "intro", <<24, 6, 31, 9, 36>>, 70) EXCEPT
           !.fp = 4, !.fpAt = 1, !.kwAt = 9, !.nums = 1, !.kocher = 1,
           !.dest = TRUE, !.destEarly = TRUE, !.s1Dest = TRUE],
       [Ln("text", "", "filler", <<17, 42, 8, 29>>, 52) EXCEPT
           !.fp = 2, !.fpAt = 3, !.sp = 1],
       Ln("h2", "Hintergrund & Tipps", "", <<2>>, 2),
       [Ln("text", "", "bg", <<14, 33, 7, 45, 21>>, 66) EXCEPT
           !.fp = 3, !.fpAt = 4, !.sp = 1, !.pfanne = 1, !.dest = TRUE,
           !.destEarly = TRUE, !.s1Dest = TRUE, !.s1Bridge = TRUE],
       [Ln("bullet", "", "tip", <<12, 9>>, 12) EXCEPT !.sp = 1],
       [Ln("bullet", "", "tip2", <<19>>, 10) EXCEPT !.sp = 1, !.nums = 1],
       [Ln("text", "", "filler", <<36, 11, 48, 5, 27>>, 68) EXCEPT
           !.fp = 2, !.fpAt = 2],
       [Ln("h2", "Rezept:", "", <<5>>, 2) EXCEPT !.pfanne = 1],
       Ln("h3", "Zutaten", "", <<1>>, 1),
       [Ln("bullet", "", "", <<2>>, 1) EXCEPT !.nums = 1],
       [Ln("bullet", "", "", <<3>>, 2) EXCEPT !.nums = 1],
       [Ln("bullet", "", "", <<4>>, 3) EXCEPT !.nums = 1],
       Ln("h3", "Schritt fuer Schritt", "", <<3>>, 2),
       [Step("step", <<18, 9>>, 14) EXCEPT !.kocher = 1],
       Step("step", <<25>>, 13),
       [Step("step", <<11, 16>>, 14) EXCEPT !.pfanne = 1],
       [Step("cook", <<21, 6>>, 13) EXCEPT
           !.nums = 3, !.mins = << <<12, 14>> >>, !.digits = 2],
       Step("step", <<30>>, 15),
       Step("step", <<8, 18>>, 12),
       Ln("h3", "Zeiten & Portionen", "", <<2>>, 2),
       [Ln("text", "", "times", <<5>>, 2) EXCEPT
           !.nums = 3, !.mins = << <<13>>, <<25>> >>, !.portions = 2],
       [Ln("text", "", "filler", <<22, 40, 13, 35>>, 58) EXCEPT
           !.fp = 1, !.fpAt = 5] >>


(***************************************************************************)
(* The documents the generation service may return: the reference article  *)
(* with up to MaxFaults of the defects below.  A document is named by its  *)
(* set of defects; Text gives its lines.                                   *)
(***************************************************************************)
MaxFaults == 2

Faults ==
    << "no_ich", "ich_late", "no_dest", "time20", "formal", "no_zutaten",
       "long", "short", "banned", "h1_no_kw" >>

\* One defect as it changes a line.
FaultLine(f, l) ==
    CASE f = "no_ich" ->      \* no first-person word at all
           [l EXCEPT !.fp = 0, !.fpAt = 0]
      [] f = "ich_late" ->    \* first first-person word after the opening
           IF l.tag = "intro" THEN [l EXCEPT !.fp = 0, !.fpAt = 0] ELSE l
      [] f = "no_dest" ->     \* opening does not name the destination
           IF l.tag = "intro"
           THEN [l EXCEPT !.dest = FALSE, !.destEarly = FALSE, !.s1Dest = FALSE]
           ELSE l
      [] f = "time20" ->      \* the only time mentioned is "20 Minuten"
           IF l.tag = "times" THEN [l EXCEPT !.mins = << <<20>> >>, !.nums = 2]
           ELSE IF l.mins # << >>
           THEN [l EXCEPT !.mins = << >>, !.nums = 1, !.digits = 0]
           ELSE l
      [] f = "formal" ->      \* one "Sie" in a tip
           IF l.tag = "tip" THEN [l EXCEPT !.formal = 1] ELSE l
      [] f = "long" ->        \* three more long sentences in each free paragraph
           IF l.tag = "filler"
           THEN [l EXCEPT !.sents = @ \o <<20, 24, 16>>, !.types = @ + 30]
           ELSE l
      [] f = "banned" ->      \* a phrase of NEGATIVE_LIST_DE
           IF l.tag = "bg" THEN [l EXCEPT !.banned = TRUE] ELSE l
      [] f = "h1_no_kw" ->    \* top-level title without the primary keyword
           IF l.kind = "h1" THEN [l EXCEPT !.kwAt = 0] ELSE l
      [] OTHER -> l

\* One defect applied to a document.
ApplyFault(f, doc) ==
    CASE f = "no_zutaten" ->  \* heading "### Zutaten" missing
           SelectSeq(doc, LAMBDA l : ~(l.kind = "h3" /\ l.name = "Zutaten"))
      [] f = "short" ->       \* the free paragraphs are missing
           SelectSeq(doc, LAMBDA l : l.tag # "filler")
      [] OTHER -> [i \in DOMAIN doc |-> FaultLine(f, doc[i])]

RECURSIVE ApplyFaults(_, _, _)
ApplyFaults(fs, i, doc) ==
    IF i > Len(Faults) THEN doc
    ELSE ApplyFaults(fs, i + 1,
                     IF Faults[i] \in fs THEN ApplyFault(Faults[i], doc) ELSE doc)

FaultNames == {Faults[i] : i \in DOMAIN Faults}

FaultSets(n) == {fs \in SUBSET FaultNames : Cardinality(fs) <= n}

\* The reference article with its first tip written three times (the copies
\* add no new token type).
RECURSIVE Tripled(_, _)
Tripled(doc, n) ==
    IF n = 0 THEN << >>
    ELSE Tripled(doc, n - 1) \o
         (IF doc[n].tag = "tip"
          THEN <<doc[n], [doc[n] EXCEPT !.types = 0], [doc[n] EXCEPT !.types = 0]>>
          ELSE <<doc[n]>>)

\* The heading whose line each of these answers lacks.
MissingHeading ==
    [d \in {{"<no_h1>"}, {"<no_einleitung>"}, {"<no_bg>"}, {"<no_rezept>"},
            {"<no_schritte>"}, {"<no_zeiten>"}} |->
        CASE d = {"<no_h1>"} -> <<"h1", "", "h1_present">>
          [] d = {"<no_einleitung>"} -> <<"h2", "Einleitung", "h2_einleitung">>
          [] d = {"<no_bg>"} -> <<"h2", "Hintergrund & Tipps", "h2_bg_tipps">>
          [] d = {"<no_rezept>"} -> <<"h2", "Rezept:", "h2_rezept">>
          [] d = {"<no_schritte>"} -> <<"h3", "Schritt fuer Schritt", "h3_schritte">>
          [] d = {"<no_zeiten>"} -> <<"h3", "Zeiten & Portionen", "h3_zeiten">>]

WithoutHeading(doc, kind, name) ==
    SelectSeq(doc, LAMBDA l : ~(l.kind = kind /\ l.name = name))

\* The digits of the longest numeral int() converts by default.
MaxStrDigits == 4300

\* Stands for the value of a numeral of more than MaxStrDigits digits.
Huge == 2147483647

\* The reference article whose cooking step gives its time as a range
\* "<numeral of 4301 digits>-14 Minuten".
LongNumeral(doc) ==
    [i \in DOMAIN doc |->
        IF doc[i].tag = "cook"
        THEN [doc[i] EXCEPT !.mins = << <<Huge, 14>> >>, !.digits = MaxStrDigits + 1]
        ELSE doc[i]]

\* The article whose block "### Zeiten & Portionen" states n portions.
WithPortions(doc, n) ==
    [i \in DOMAIN doc |->
        IF doc[i].tag = "times" THEN [doc[i] EXCEPT !.portions = n] ELSE doc[i]]

\* The article whose ingredients are a numbered list ("1. 2 Eier": one more
\* number on each line) and whose procedure has lost its last step.
NumberedIngredients(doc) ==
    LET zutaten == CHOOSE i \in DOMAIN doc : doc[i].kind = "h3" /\ doc[i].name = "Zutaten"
        last == CHOOSE i \in DOMAIN doc :
                    /\ doc[i].kind = "num"
                    /\ \A j \in DOMAIN doc : doc[j].kind = "num" => j <= i
        numbered == [i \in DOMAIN doc |->
                        IF i > zutaten /\ doc[i].kind = "bullet"
                        THEN [doc[i] EXCEPT !.kind = "num", !.nums = @ + 1]
                        ELSE doc[i]]
    IN  SubSeq(numbered, 1, last - 1) \o SubSeq(numbered, last + 1, Len(numbered))

\* The article with n more steps at the end of its procedure.
RECURSIVE MoreSteps(_, _)
MoreSteps(doc, n) ==
    IF n = 0 THEN doc
    ELSE LET d == MoreSteps(doc, n - 1)
             last == CHOOSE i \in DOMAIN d :
                         /\ d[i].kind = "num"
                         /\ \A j \in DOMAIN d : d[j].kind = "num" => j <= i
         IN  SubSeq(d, 1, last) \o <<Step("step", <<9>>, 5)>>
             \o SubSeq(d, last + 1, Len(d))

\* The article whose front-matter field has a quoted value of n characters
\* (0: the value is not quoted, so the pattern of seo_lengths finds none).
WithFieldLen(doc, field, n) ==
    [i \in DOMAIN doc |->
        IF doc[i].kind = "yaml" /\ doc[i].name = field
        THEN [doc[i] EXCEPT !.qlen = n] ELSE doc[i]]

\* The front-matter field and the length of its value in each of these
\* answers.
FieldLengths ==
    [d \in {{"<title_9>"}, {"<title_61>"}, {"<title_unquoted>"}, {"<meta_49>"},
            {"<meta_156>"}} |->
        CASE d = {"<title_9>"} -> <<"seo_title", 9>>
          [] d = {"<title_61>"} -> <<"seo_title", 61>>
          [] d = {"<title_unquoted>"} -> <<"seo_title", 0>>
          [] d = {"<meta_49>"} -> <<"meta_description", 49>>
          [] d = {"<meta_156>"} -> <<"meta_description", 156>>]

\* Answers outside the defect scheme, named like the others by a set: the
\* empty text, the article without its front matter, the article without
\* one of its required headings, the article with a tripled tip, the
\* article with an overlong numeral, with 20 portions, with numbered
\* ingredients and five steps, with eleven steps, and with a front-matter
\* field of another length.
OtherTexts ==
    [d \in {{"<empty>"}, {"<no_header>"}, {"<dup_tip>"}, {"<long_numeral>"},
            {"<portions_20>"}, {"<numbered_zutaten>"}, {"<steps_11>"}}
            \cup DOMAIN MissingHeading \cup DOMAIN FieldLengths |->
        CASE d = {"<empty>"} -> << >>
          [] d = {"<no_header>"} -> SubSeq(GoodDoc, 8, Len(GoodDoc))
          [] d = {"<dup_tip>"} -> Tripled(GoodDoc, Len(GoodDoc))
          [] d = {"<long_numeral>"} -> LongNumeral(GoodDoc)
          [] d = {"<portions_20>"} -> WithPortions(GoodDoc, 20)
          [] d = {"<numbered_zutaten>"} -> NumberedIngredients(GoodDoc)
          [] d = {"<steps_11>"} -> MoreSteps(GoodDoc, 5)
          [] d \in DOMAIN FieldLengths ->
                 WithFieldLen(GoodDoc, FieldLengths[d][1], FieldLengths[d][2])
          [] OTHER -> WithoutHeading(GoodDoc, MissingHeading[d][1], MissingHeading[d][2])]

OtherDocs == DOMAIN OtherTexts

Docs == {fs : fs \in FaultSets(MaxFaults) \cup OtherDocs}

\* The answers to the draft request and to the clean request (their content
\* decides nothing: only the edited text is evaluated).
FirstDocs == {{}, {"short"}}

CleanedDocs == {{}}

TextOf ==
    [d \in Docs |->
        IF d \in OtherDocs THEN OtherTexts[d] ELSE ApplyFaults(d, 1, GoodDoc)]

Text(d) == TextOf[d]

\* Value of a document variable before its assignment.
NoDoc == {"<none>"}

(***************************************************************************)
(* Lexical metrics                                                         *)
(***************************************************************************)
RECURSIVE SumTo(_, _)
SumTo(s, n) == IF n = 0 THEN 0 ELSE s[n] + SumTo(s, n - 1)

SumSeq(s) == SumTo(s, Len(s))

\* Sum of a per-line count over a document.
Total(md, field) == SumSeq([i \in DOMAIN md |-> md[i][field]])

\* tokenize: the tokens of a line are those of its sentences.
Words(l) == SumSeq(l.sents)

word_count(md) == SumSeq([i \in DOMAIN md |-> Words(md[i])])

\* unique lowercased tokens over tokens, kept as the pair <<unique, total>>;
\* 0.0 for a text without tokens.
type_token_ratio(md) ==
    LET total == word_count(md)
    IN  IF total > 0 THEN <<Total(md, "types"), total>> ELSE <<0, 1>>

RECURSIVE Flatten(_, _)
Flatten(md, n) == IF n = 0 THEN << >> ELSE Flatten(md, n - 1) \o md[n].sents

\* token counts of the sentences that have tokens, or [0]
sentence_lengths(md) ==
    LET lens == Flatten(md, Len(md))
    IN  IF lens # << >> THEN lens ELSE <<0>>

\* statistics.pstdev of the sentence lengths, kept as its square
\* <<n * sum(x^2) - sum(x)^2, n^2>>; 0.0 for at most one sentence.
variance_sentence_length(md) ==
    LET lens == sentence_lengths(md)
        n    == Len(lens)
        sum  == SumSeq(lens)
        sq   == SumSeq([i \in DOMAIN lens |-> lens[i] * lens[i]])
    IN  IF n > 1 THEN <<n * sq - sum * sum, n * n>> ELSE <<0, 1>>

\* ratio >= pct / 100
RatioAtLeast(ratio, pct) == ratio[1] * 100 >= pct * ratio[2]

\* standard deviation >= t, for the squared deviation var
DeviationAtLeast(var, t) == var[1] >= t * t * var[2]

count_first_person(md) == Total(md, "fp")

count_numbers(md) == Total(md, "nums")

has_banned_phrases(md) == \E i \in DOMAIN md : md[i].banned

count_second_person(md) == Total(md, "sp")

count_formal_address(md) == Total(md, "formal")

(***************************************************************************)
(* Structure and front-matter checks                                       *)
(***************************************************************************)
\* md.strip(): leading and trailing blank lines do not count.
Strip(md) ==
    LET nb == {i \in DOMAIN md : md[i].kind # "blank"}
    IN  IF nb = {} THEN << >>
        ELSE SubSeq(md, CHOOSE i \in nb : \A j \in nb : i <= j,
                        CHOOSE i \in nb : \A j \in nb : i >= j)

\* re.sub(r"^---[\s\S]*?---", "", md).strip(): the text after the second
\* "---" when the text starts with "---", else the whole text.
BodyWithoutYaml(md) ==
    LET close == {j \in DOMAIN md : j > 1 /\ md[j].kind = "delim"}
    IN  IF md # << >> /\ md[1].kind = "delim" /\ close # {}
        THEN Strip(SubSeq(md, (CHOOSE j \in close : \A k \in close : j <= k) + 1, Len(md)))
        ELSE Strip(md)

\* Tokens of the lines before line i.
RECURSIVE TokensBefore(_, _)
TokensBefore(body, i) ==
    IF i <= 1 THEN 0 ELSE TokensBefore(body, i - 1) + Words(body[i - 1])

\* The first positive entry of marks from index i on (0: none).
RECURSIVE FirstMarked(_, _)
FirstMarked(marks, i) ==
    IF i > Len(marks) THEN 0
    ELSE IF marks[i] > 0 THEN i
    ELSE FirstMarked(marks, i + 1)

\* The marked token occurs among the first 100 tokens of the text.
InFirst100(body, field) ==
    LET i == FirstMarked([k \in DOMAIN body |-> body[k][field]], 1)
    IN  i > 0 /\ TokensBefore(body, i) + body[i][field] <= 100

HasHeading(md, kind, name) == \E i \in DOMAIN md : md[i].kind = kind /\ md[i].name = name

StepsMax == 12

check_structure(md, primary_kw) ==
    LET s     == Strip(md)
        h1s   == {i \in DOMAIN md : md[i].kind = "h1"}
        h1    == IF h1s = {} THEN L0 ELSE md[CHOOSE i \in h1s : \A j \in h1s : i <= j]
        steps == Cardinality({i \in DOMAIN md : md[i].kind = "num"})
    IN  [yaml_frontmatter |-> s # << >> /\ s[1].kind = "delim"
                              /\ \E j \in 2..Len(s) : s[j].kind = "delim",
         h1_present |-> h1s # {},
         h1_contains_primary_kw |-> IF primary_kw # << >> THEN h1.kwAt > 0 ELSE TRUE,
         h2_einleitung |-> HasHeading(md, "h2", "Einleitung"),
         h2_bg_tipps |-> HasHeading(md, "h2", "Hintergrund & Tipps"),
         h2_rezept |-> HasHeading(md, "h2", "Rezept:"),
         h3_zutaten |-> HasHeading(md, "h3", "Zutaten"),
         h3_schritte |-> HasHeading(md, "h3", "Schritt fuer Schritt"),
         h3_zeiten |-> HasHeading(md, "h3", "Zeiten & Portionen"),
         steps_count |-> steps,
         steps_ok |-> 6 <= steps /\ steps <= StepsMax,
         kw_in_first100 |-> IF primary_kw # << >>
                            THEN InFirst100(BodyWithoutYaml(md), "kwAt")
                            ELSE TRUE]

\* The text captured after "## <header>": the pattern's lazy group ends at
\* the first end of line, so it is the first non-blank line after the
\* heading (<< >> when there is none, or no such heading).
extract_section(md, header) ==
    LET hs == {i \in DOMAIN md : md[i].kind = "h2" /\ md[i].name = header}
        h  == CHOOSE i \in hs : \A j \in hs : i <= j
        nb == {i \in DOMAIN md : i > h /\ md[i].kind # "blank"}
    IN  IF hs = {} \/ nb = {} THEN << >>
        ELSE << md[CHOOSE i \in nb : \A j \in nb : i <= j] >>

contains_destination(text, dest) ==
    IF dest = "" THEN TRUE ELSE \E i \in DOMAIN text : text[i].dest

coherence_checks(md, destination, bg_mode) ==
    LET intro == extract_section(md, "Einleitung")
        bg    == extract_section(md, "Hintergrund & Tipps")
        intro_has_dest == contains_destination(intro, destination)
        \* bg[:200]
        bg_has_dest == IF bg # << >>
                       THEN (IF destination = "" THEN TRUE ELSE bg[1].destEarly)
                       ELSE TRUE
        bridge_ok == /\ bg # << >>
                     /\ \/ bg[1].s1Bridge
                        \/ destination # "" /\ bg[1].s1Dest
        all_ok == IF bg_mode = "story" THEN intro_has_dest /\ bg_has_dest /\ bridge_ok
                  ELSE TRUE
    IN  [intro_has_dest |-> intro_has_dest,
         bg_has_dest |-> bg_has_dest,
         bridge_ok |-> IF bg_mode = "story" THEN bridge_ok ELSE TRUE,
         ok |-> all_ok]

(***************************************************************************)
(* Plausibility checks.  A details string is the record of what the checks *)
(* read in it: its minute mentions (as on a line), and whether it contains *)
(* "wenig abwasch" and "ofen".                                             *)
(***************************************************************************)
None == << >>

IsRange(m) == Len(m) = 2

\* The first range of the details, its ends put in order; failing that the
\* first single value v as <<v, v>>; failing that None.
details_time_target(details) ==
    LET t  == details.mins
        rs == {i \in DOMAIN t : IsRange(t[i])}
        r  == t[CHOOSE i \in rs : \A j \in rs : i <= j]
    IN  IF rs # {}
        THEN (IF r[1] > r[2] THEN <<r[2], r[1]>> ELSE <<r[1], r[2]>>)
        ELSE IF t # << >> THEN <<t[1][1], t[1][1]>>
        ELSE None

RECURSIVE Mentions(_, _)
Mentions(md, n) == IF n = 0 THEN << >> ELSE Mentions(md, n - 1) \o md[n].mins

RECURSIVE RangeEnds(_, _)
RangeEnds(ms, n) ==
    IF n = 0 THEN << >>
    ELSE RangeEnds(ms, n - 1) \o (IF IsRange(ms[n]) THEN ms[n] ELSE << >>)

\* int(lo), int(hi) on the ends of a range raises ValueError for a numeral
\* of more than MaxStrDigits digits; int(v) on a single value is guarded by
\* try/except.
parse_minutes_raises(md) == \E i \in DOMAIN md : md[i].digits > MaxStrDigits

\* Both ends of every range, then every "<n> min": the upper end of each
\* range once more, and each single value.
parse_minutes_in_text(md) ==
    LET ms == Mentions(md, Len(md))
    IN  RangeEnds(ms, Len(ms)) \o [i \in DOMAIN ms |-> ms[i][Len(ms[i])]]

\* The number after "Portionen" in the section "## Zeiten & Portionen".
extract_portions(md) ==
    LET block == extract_section(md, "Zeiten & Portionen")
    IN  IF block = << >> THEN -1 ELSE block[1].portions

TimeTolerance == 2

\* A variant of WithinTolerance that forgets the upper end of the window.
WithinTolerance_LowerOnly(m, target) == target[1] - TimeTolerance <= m

\* lo - 2 <= m <= hi + 2
WithinTolerance(m, target) ==
    target[1] - TimeTolerance <= m /\ m <= target[2] + TimeTolerance

plausibility_checks(md, details) ==
    LET equipment_ok == Total(md, "kocher") + Total(md, "pfanne") >= 1
        oven_ok == IF ~details.ofen THEN Total(md, "oven") = 0 ELSE TRUE
        abwasch_ok == IF details.wenig_abwasch
                      THEN Total(md, "bowls") <= 1
                           /\ Total(md, "pots") <= 1
                      ELSE TRUE
        target == details_time_target(details)
        found_minutes == parse_minutes_in_text(md)
        timing_ok == IF target # None
                     THEN \E i \in DOMAIN found_minutes :
                              WithinTolerance(found_minutes[i], target)
                     ELSE TRUE
        portions == extract_portions(md)
        portions_ok == portions = -1 \/ (1 <= portions /\ portions <= 8)
    IN  [ok |-> equipment_ok /\ oven_ok /\ abwasch_ok /\ timing_ok /\ portions_ok,
         equipment_ok |-> equipment_ok,
         oven_ok |-> oven_ok,
         abwasch_ok |-> abwasch_ok,
         timing_ok |-> timing_ok,
         portions_ok |-> portions_ok,
         target_time |-> target,
         found_minutes |-> found_minutes,
         portions |-> portions]

ich_in_first100(md) == InFirst100(BodyWithoutYaml(md), "fpAt")

\* Length of the quoted value of the first line that has the field (0: none).
FieldLen(md, field) ==
    LET fs == {i \in DOMAIN md : md[i].kind = "yaml" /\ md[i].name = field /\ md[i].qlen > 0}
    IN  IF fs = {} THEN 0 ELSE md[CHOOSE i \in fs : \A j \in fs : i <= j].qlen

\* A variant of seo_lengths that checks the upper bounds only.
seo_lengths_UpperOnly(md) ==
    LET title_len == FieldLen(md, "seo_title")
        meta_len  == FieldLen(md, "meta_description")
    IN  [title_len |-> title_len,
         title_ok |-> title_len <= 60,
         meta_len |-> meta_len,
         meta_ok |-> meta_len <= 155]

seo_lengths(md) ==
    LET title_len == FieldLen(md, "seo_title")
        meta_len  == FieldLen(md, "meta_description")
    IN  [title_len |-> title_len,
         title_ok |-> 10 <= title_len /\ title_len <= 60,
         meta_len |-> meta_len,
         meta_ok |-> 50 <= meta_len /\ meta_len <= 155]

(***************************************************************************)
(* evaluate_quality: the verdict and the diagnostic report                 *)
(***************************************************************************)
\* A variant of StructureAll that also reads the title-keyword check.
StructureAll_WithTitleKw(structure, seo_meta) ==
    /\ structure.yaml_frontmatter
    /\ structure.h1_present
    /\ structure.h1_contains_primary_kw
    /\ structure.h2_einleitung
    /\ structure.h2_bg_tipps
    /\ structure.h2_rezept
    /\ structure.h3_zutaten
    /\ structure.h3_schritte
    /\ structure.h3_zeiten
    /\ structure.steps_ok
    /\ structure.kw_in_first100
    /\ seo_meta.title_ok
    /\ seo_meta.meta_ok

\* The checks of structure and front matter that the verdict reads.
StructureAll(structure, seo_meta) ==
    /\ structure.yaml_frontmatter
    /\ structure.h1_present
    /\ structure.h2_einleitung
    /\ structure.h2_bg_tipps
    /\ structure.h2_rezept
    /\ structure.h3_zutaten
    /\ structure.h3_schritte
    /\ structure.h3_zeiten
    /\ structure.steps_ok
    /\ structure.kw_in_first100
    /\ seo_meta.title_ok
    /\ seo_meta.meta_ok

\* The exception of parse_minutes_in_text leaves plausibility_checks and
\* evaluate_quality: no verdict, no report.
ValueError == [raised |-> TRUE]

evaluate_quality(text, targets, primary_kw, destination, details, bg_mode) ==
    LET style_metrics ==
            [ttr |-> type_token_ratio(text),
             var_sentence_len |-> variance_sentence_length(text),
             first_person |-> count_first_person(text),
             numbers |-> count_numbers(text),
             words |-> word_count(text),
             second_person |-> count_second_person(text),
             formal_address |-> count_formal_address(text),
             has_banned |-> has_banned_phrases(text)]
        structure == check_structure(text, primary_kw)
        seo_meta == seo_lengths(text)
        coherence == coherence_checks(text, destination, bg_mode)
        plaus == plausibility_checks(text, details)
        ich_intro_ok == ich_in_first100(text)
        verdict == /\ ~style_metrics.has_banned
                   /\ RatioAtLeast(style_metrics.ttr, targets.min_ttr)
                   /\ DeviationAtLeast(style_metrics.var_sentence_len, targets.min_var_sentence_len)
                   /\ style_metrics.first_person >= targets.min_first_person
                   /\ style_metrics.numbers >= targets.min_numbers
                   /\ targets.min_words <= style_metrics.words
                   /\ style_metrics.words <= targets.max_words
                   /\ style_metrics.second_person >= targets.min_second_person
                   /\ style_metrics.formal_address <= targets.max_formal_address
                   /\ ich_intro_ok
                   /\ StructureAll(structure, seo_meta)
                   /\ coherence.ok
                   /\ plaus.ok
    IN  IF parse_minutes_raises(text) THEN ValueError
        ELSE [raised |-> FALSE,
              ok |-> verdict,
              metrics |-> [style_metrics |-> style_metrics,
                           structure |-> structure,
                           seo_meta |-> seo_meta,
                           coherence |-> coherence,
                           plausibility |-> plaus,
                           ich_intro_ok |-> ich_intro_ok]]

(***************************************************************************)
(* The run: generate_article                                               *)
(***************************************************************************)
\* The inputs of a run.  topic and primary_kw are their lowercased words
\* (<< >>: the empty string).
DetailsWindow == [mins |-> << <<12, 14>> >>, wenig_abwasch |-> TRUE, ofen |-> FALSE]

DetailsPlain == [mins |-> << >>, wenig_abwasch |-> FALSE, ofen |-> FALSE]

DetailsReversed == [mins |-> << <<5>>, <<14, 12>> >>, wenig_abwasch |-> TRUE, ofen |-> TRUE]

Configs ==
    { [topic |-> <<"shakshuka">>, primary_kw |-> <<"shakshuka", "rezept">>,
       destination |-> "Israel", bg_mode |-> "story", details |-> DetailsWindow,
       min_words |-> 700, max_words |-> 1000],
      [topic |-> <<"shakshuka">>, primary_kw |-> << >>,
       destination |-> "", bg_mode |-> "auto", details |-> DetailsPlain,
       min_words |-> 700, max_words |-> 1000],
      [topic |-> <<"ruehrei">>, primary_kw |-> <<"ruehrei", "rezept">>,
       destination |-> "", bg_mode |-> "tips", details |-> DetailsReversed,
       min_words |-> 400, max_words |-> 600],
      [topic |-> << >>, primary_kw |-> << >>,
       destination |-> "Israel", bg_mode |-> "auto", details |-> DetailsWindow,
       min_words |-> 1000, max_words |-> 700] }

Contains(text, word) == \E i \in DOMAIN text : text[i] = word

\* The destination of the first dish of the mapping that the text names.
guess_destination(text) ==
    LET mapping == << <<"shakshuka", "Israel">>, <<"pad thai", "Thailand">>,
                      <<"carbonara", "Italien">>, <<"khachapuri", "Georgien">>,
                      <<"arepas", "Kolumbien">>, <<"laksa", "Malaysia">>,
                      <<"ratatouille", "Frankreich">>, <<"paella", "Spanien">>,
                      <<"chili", "USA">>, <<"bibimbap", "Suedkorea">> >>
        hits == {i \in DOMAIN mapping : Contains(text, mapping[i][1])}
    IN  IF hits = {} THEN "" ELSE mapping[CHOOSE i \in hits : \A j \in hits : i <= j][2]

_wants_story(bg_mode, destination, topic, primary_kw) ==
    LET txt == topic \o primary_kw
        simple_markers == {"spiegelei", "ruehrei", "porridge", "haferbrei", "nudeln",
                           "pasta", "salat", "sandwich", "brot", "reis", "kartoffeln",
                           "omelett", "pfannkuchen", "tomatensosse", "butterbrot"}
    IN  IF bg_mode = "story" THEN TRUE
        ELSE IF bg_mode = "tips" THEN FALSE
        ELSE IF \E w \in simple_markers : Contains(txt, w) THEN FALSE
        ELSE destination # ""

\* pk, dest and use_story as generate_article derives them from its inputs
Pk(c) == IF c.primary_kw # << >> THEN c.primary_kw ELSE c.topic

Dest(c) == IF c.destination # "" THEN c.destination ELSE guess_destination(c.topic \o Pk(c))

UseStory(c) == _wants_story(c.bg_mode, c.destination, c.topic, Pk(c))

Targets(c) ==
    [min_ttr |-> 45, min_var_sentence_len |-> 7, min_first_person |-> 6,
     min_numbers |-> 3, min_words |-> c.min_words, max_words |-> c.max_words,
     min_second_person |-> 2, max_formal_address |-> 0]

\* evaluate_quality as generate_article calls it on a document of the run
Evaluation(d, c) ==
    evaluate_quality(Text(d), Targets(c), Pk(c), Dest(c), c.details, c.bg_mode)

\* The evaluations of the documents of the model, computed once.
EvaluationOf == [d \in Docs, c \in Configs |-> Evaluation(d, c)]

\* The conditions of the branches of the selector, on a report m.
VoiceFails(m, targets) ==
    m.style_metrics.first_person < targets.min_first_person \/ ~m.ich_intro_ok

AddressFails(m, targets) ==
    \/ m.style_metrics.formal_address > 0
    \/ m.style_metrics.second_person < targets.min_second_person

\* A variant of SelectRemedy whose voice branch reads the count only.
SelectRemedy_CountOnly(m, targets) ==
    IF m.style_metrics.first_person < targets.min_first_person THEN "ich_rewrite"
    ELSE IF ~m.coherence.ok THEN "coherence_fix"
    ELSE IF ~m.plausibility.ok THEN "plausibility_fix"
    ELSE IF AddressFails(m, targets) THEN "du_rewrite"
    ELSE IF ~StructureAll(m.structure, m.seo_meta) THEN "structure_fix"
    ELSE IF m.style_metrics.words < targets.min_words THEN "expand"
    ELSE IF m.style_metrics.words > targets.max_words THEN "condense"
    ELSE "polish"

\* A variant of SelectRemedy with the plausibility branch after the length
\* branches.
SelectRemedy_PlausibilityLast(m, targets) ==
    IF VoiceFails(m, targets) THEN "ich_rewrite"
    ELSE IF ~m.coherence.ok THEN "coherence_fix"
    ELSE IF AddressFails(m, targets) THEN "du_rewrite"
    ELSE IF ~StructureAll(m.structure, m.seo_meta) THEN "structure_fix"
    ELSE IF m.style_metrics.words < targets.min_words THEN "expand"
    ELSE IF m.style_metrics.words > targets.max_words THEN "condense"
    ELSE IF ~m.plausibility.ok THEN "plausibility_fix"
    ELSE "polish"

\* A variant of SelectRemedy with the prompts of the two length branches
\* exchanged.
SelectRemedy_LengthSwapped(m, targets) ==
    IF VoiceFails(m, targets) THEN "ich_rewrite"
    ELSE IF ~m.coherence.ok THEN "coherence_fix"
    ELSE IF ~m.plausibility.ok THEN "plausibility_fix"
    ELSE IF AddressFails(m, targets) THEN "du_rewrite"
    ELSE IF ~StructureAll(m.structure, m.seo_meta) THEN "structure_fix"
    ELSE IF m.style_metrics.words < targets.min_words THEN "condense"
    ELSE IF m.style_metrics.words > targets.max_words THEN "expand"
    ELSE "polish"

\* The repair instruction for a report: the first branch that applies.
SelectRemedy(metrics, targets) ==
    LET sm  == metrics.style_metrics
        stc == metrics.structure
        seo == metrics.seo_meta
        ich_intro_ok == metrics.ich_intro_ok
        coh == metrics.coherence
        pl  == metrics.plausibility
    IN  IF sm.first_person < targets.min_first_person \/ ~ich_intro_ok THEN "ich_rewrite"
        ELSE IF ~coh.ok THEN "coherence_fix"
        ELSE IF ~pl.ok THEN "plausibility_fix"
        ELSE IF sm.formal_address > 0 \/ sm.second_person < targets.min_second_person
             THEN "du_rewrite"
        ELSE IF ~StructureAll(stc, seo) THEN "structure_fix"
        ELSE IF sm.words < targets.min_words THEN "expand"
        ELSE IF sm.words > targets.max_words THEN "condense"
        ELSE "polish"

MaxAttempts == 6

ForceRounds == 2

VARIABLES
    cfg,       \* the inputs of the run
    pc,        \* position of generate_article
    draft,     \* answer to the draft request
    cleaned,   \* answer to the clean request
    edited,    \* the current document
    ok,        \* verdict of the last evaluation
    metrics,   \* report of the last evaluation
    attempts,  \* repair rounds begun
    forced,    \* forced-expansion rounds begun
    prompt,    \* kind of the last prompt built for the generation service
    calls,     \* generation-service calls made
    evals,     \* evaluations made
    result     \* what generate_article returned

vars ==
    <<cfg, pc, draft, cleaned, edited, ok, metrics, attempts, forced, prompt,
      calls, evals, result>>

NoMetrics == [style_metrics |-> << >>]

NoResult == [passed_heuristics |-> "none"]

\* A call that fails to return text.
Failure == {"<error>"}

Init ==
    /\ cfg \in Configs
    /\ pc = "draft"
    /\ draft = NoDoc
    /\ cleaned = NoDoc
    /\ edited = NoDoc
    /\ ok = FALSE
    /\ metrics = NoMetrics
    /\ attempts = 0
    /\ forced = 0
    /\ prompt = "none"
    /\ calls = 0
    /\ evals = 0
    /\ result = NoResult

\* A variant of Raise that catches the exception and goes on to the return
\* with what the run has.
Raise_Swallowed ==
    /\ pc' = "return"
    /\ UNCHANGED <<draft, cleaned, edited, ok, metrics, evals>>

\* call_claude raised: the exception leaves generate_article.
Raise ==
    /\ pc' = "raised"
    /\ UNCHANGED <<draft, cleaned, edited, ok, metrics, evals>>

\* evaluate_quality raised on the answer r: edited is assigned, ok and
\* metrics are not, and the exception leaves generate_article.
EvaluateRaised(r) ==
    /\ edited' = r
    /\ pc' = "evaluate_raised"
    /\ UNCHANGED <<draft, cleaned, ok, metrics, evals>>

\* A variant of Evaluated that keeps the verdict and report of the run's
\* first evaluation.
Evaluated_KeepFirst(r) ==
    /\ ok' = IF evals > 0 THEN ok ELSE EvaluationOf[r, cfg].ok
    /\ metrics' = IF evals > 0 THEN metrics ELSE EvaluationOf[r, cfg].metrics
    /\ evals' = evals + 1

\* ok, metrics = evaluate_quality(edited, ...) on the answer r
Evaluated(r) ==
    /\ ok' = EvaluationOf[r, cfg].ok
    /\ metrics' = EvaluationOf[r, cfg].metrics
    /\ evals' = evals + 1

\* Pass 1: the draft request.
Draft ==
    /\ pc = "draft"
    /\ prompt' = "draft"
    /\ calls' = calls + 1
    /\ \E r \in FirstDocs \cup {Failure} :
          IF r = Failure THEN Raise
          ELSE /\ draft' = r
               /\ pc' = "clean"
               /\ UNCHANGED <<cleaned, edited, ok, metrics, evals>>
    /\ UNCHANGED <<cfg, attempts, forced, result>>

\* Pass 1.5: the clean request on the draft.
Clean ==
    /\ pc = "clean"
    /\ prompt' = "clean"
    /\ calls' = calls + 1
    /\ \E r \in CleanedDocs \cup {Failure} :
          IF r = Failure THEN Raise
          ELSE /\ cleaned' = r
               /\ pc' = "edit"
               /\ UNCHANGED <<draft, edited, ok, metrics, evals>>
    /\ UNCHANGED <<cfg, attempts, forced, result>>

\* Pass 2: the style edit of the cleaned text, then the first evaluation;
\* attempts = 0.
Edit ==
    /\ pc = "edit"
    /\ prompt' = "edit"
    /\ calls' = calls + 1
    /\ \E r \in Docs \cup {Failure} :
          IF r = Failure THEN Raise /\ UNCHANGED attempts
          ELSE IF EvaluationOf[r, cfg].raised
          THEN EvaluateRaised(r) /\ UNCHANGED attempts
          ELSE /\ edited' = r
               /\ Evaluated(r)
               /\ attempts' = 0
               /\ pc' = "loop"
               /\ UNCHANGED <<draft, cleaned>>
    /\ UNCHANGED <<cfg, forced, result>>

\* A variant of Loop that admits a round while attempts <= 6.
Loop_OffByOne ==
    /\ pc = "loop"
    /\ IF ~ok /\ attempts <= MaxAttempts
       THEN /\ attempts' = attempts + 1
            /\ prompt' = SelectRemedy(metrics, Targets(cfg))
            /\ pc' = "repair"
       ELSE /\ pc' = "after_loop"
            /\ UNCHANGED <<attempts, prompt>>
    /\ UNCHANGED <<cfg, draft, cleaned, edited, ok, metrics, forced, calls,
                   evals, result>>

\* while not ok and attempts < 6: count the round and build its prompt.
Loop ==
    /\ pc = "loop"
    /\ IF ~ok /\ attempts < MaxAttempts
       THEN /\ attempts' = attempts + 1
            /\ prompt' = SelectRemedy(metrics, Targets(cfg))
            /\ pc' = "repair"
       ELSE /\ pc' = "after_loop"
            /\ UNCHANGED <<attempts, prompt>>
    /\ UNCHANGED <<cfg, draft, cleaned, edited, ok, metrics, forced, calls,
                   evals, result>>

\* A variant of Repair that sends a second request when the answer to the
\* first is judged false, before the round ends.
Repair_SecondRequest ==
    /\ pc = "repair"
    /\ \E r \in Docs \cup {Failure} :
          IF r = Failure THEN Raise /\ calls' = calls + 1
          ELSE IF EvaluationOf[r, cfg].raised
          THEN EvaluateRaised(r) /\ calls' = calls + 1
          ELSE /\ edited' = r
               /\ Evaluated(r)
               /\ calls' = IF ok' THEN calls + 1 ELSE calls + 2
               /\ pc' = "loop"
               /\ UNCHANGED <<draft, cleaned>>
    /\ UNCHANGED <<cfg, attempts, forced, prompt, result>>

\* The repair request of the round and the evaluation of its answer.
Repair ==
    /\ pc = "repair"
    /\ calls' = calls + 1
    /\ \E r \in Docs \cup {Failure} :
          IF r = Failure THEN Raise
          ELSE IF EvaluationOf[r, cfg].raised THEN EvaluateRaised(r)
          ELSE /\ edited' = r
               /\ Evaluated(r)
               /\ pc' = "loop"
               /\ UNCHANGED <<draft, cleaned>>
    /\ UNCHANGED <<cfg, attempts, forced, prompt, result>>

\* A variant of AfterLoop that enters the forced rounds on any false verdict.
AfterLoop_AnyFailure ==
    /\ pc = "after_loop"
    /\ IF ~ok THEN pc' = "force" ELSE pc' = "return"
    /\ UNCHANGED <<cfg, draft, cleaned, edited, ok, metrics, attempts, forced, prompt,
                   calls, evals, result>>

\* if not ok and words < min_words: enter the forced-expansion rounds.
AfterLoop ==
    /\ pc = "after_loop"
    /\ IF ~ok /\ metrics.style_metrics.words < cfg.min_words
       THEN pc' = "force"
       ELSE pc' = "return"
    /\ UNCHANGED <<cfg, draft, cleaned, edited, ok, metrics, attempts, forced, prompt,
                   calls, evals, result>>

\* A variant of Force without the break on a true verdict.
Force_NoBreak ==
    /\ pc = "force"
    /\ forced' = forced + 1
    /\ prompt' = "expand"
    /\ calls' = calls + 1
    /\ \E r \in Docs \cup {Failure} :
          IF r = Failure THEN Raise
          ELSE IF EvaluationOf[r, cfg].raised THEN EvaluateRaised(r)
          ELSE /\ edited' = r
               /\ Evaluated(r)
               /\ pc' = IF forced' >= ForceRounds THEN "return" ELSE "force"
               /\ UNCHANGED <<draft, cleaned>>
    /\ UNCHANGED <<cfg, attempts, result>>

\* One forced round: the expansion request and the evaluation of its
\* answer; break on a true verdict, else the next of the two rounds.
Force ==
    /\ pc = "force"
    /\ forced' = forced + 1
    /\ prompt' = "expand"
    /\ calls' = calls + 1
    /\ \E r \in Docs \cup {Failure} :
          IF r = Failure THEN Raise
          ELSE IF EvaluationOf[r, cfg].raised THEN EvaluateRaised(r)
          ELSE /\ edited' = r
               /\ Evaluated(r)
               /\ pc' = IF ok' \/ forced' >= ForceRounds THEN "return" ELSE "force"
               /\ UNCHANGED <<draft, cleaned>>
    /\ UNCHANGED <<cfg, attempts, result>>

Return ==
    /\ pc = "return"
    /\ result' = [draft |-> draft, final |-> edited, metrics |-> metrics,
                  passed_heuristics |-> ok]
    /\ pc' = "returned"
    /\ UNCHANGED <<cfg, draft, cleaned, edited, ok, metrics, attempts, forced, prompt,
                   calls, evals>>

Next ==
    \/ Draft
    \/ Clean
    \/ Edit
    \/ Loop
    \/ Repair
    \/ AfterLoop
    \/ Force
    \/ Return

Spec == Init /\ [][Next]_vars

\* The interpreter runs the function on: every step that can be taken is taken.
FairSpec == Spec /\ WF_vars(Next)

(***************************************************************************)
(* Properties.  A report is in metrics once an evaluation was made          *)
(* (evals > 0); at pc = "repair" it is the report the prompt was built from. *)
(***************************************************************************)
ReportedWords == metrics.style_metrics.words

\* Every conjunct of the verdict other than the lower word bound.
AllButMinWords(m, targets) ==
    /\ ~m.style_metrics.has_banned
    /\ RatioAtLeast(m.style_metrics.ttr, targets.min_ttr)
    /\ DeviationAtLeast(m.style_metrics.var_sentence_len, targets.min_var_sentence_len)
    /\ m.style_metrics.first_person >= targets.min_first_person
    /\ m.style_metrics.numbers >= targets.min_numbers
    /\ m.style_metrics.words <= targets.max_words
    /\ m.style_metrics.second_person >= targets.min_second_person
    /\ m.style_metrics.formal_address <= targets.max_formal_address
    /\ m.ich_intro_ok
    /\ StructureAll(m.structure, m.seo_meta)
    /\ m.coherence.ok
    /\ m.plausibility.ok

\* C1: a run never makes more than 11 generation-service calls: the 3
\* initial passes, at most 6 repair calls and at most 2 forced-expansion
\* calls.
C1_CallBudget ==
    /\ calls <= 11
    /\ attempts <= 6
    /\ forced <= 2
    /\ calls <= 3 + attempts + forced

\* A run that made all 11 calls and returned.
C1_Witness == pc = "returned" /\ calls = 11 /\ attempts = 6 /\ forced = 2

\* C2: a run in which no call fails terminates and returns the final
\* document, the final report and the verdict; the run is left by an
\* exception only in a step that makes a call and evaluates nothing (a
\* failed call), never because of a verdict; and a run whose budget is
\* exhausted returns with verdict false.
C2_AlwaysReturns ==
    /\ ([](pc # "raised")) => <>(pc = "returned")
    /\ [](pc = "returned" =>
             result = [draft |-> draft, final |-> edited, metrics |-> metrics,
                       passed_heuristics |-> ok])
    /\ [][pc' = "raised" => calls' = calls + 1 /\ evals' = evals /\ ok' = ok]_vars

\* C3: from the evaluation that yields verdict true on, no call is made, no
\* evaluation is made, the document is not replaced, and that document is
\* the final one of the result.
C3_StopOnTrue ==
    [][ok => /\ calls' = calls
             /\ evals' = evals
             /\ edited' = edited
             /\ ok'
             /\ pc' # "raised"
             /\ (pc' = "returned" =>
                    result'.final = edited /\ result'.passed_heuristics = TRUE)]_vars

\* A run that returned a document judged true in its second repair round.
C3_Witness ==
    /\ pc = "returned"
    /\ result.passed_heuristics = TRUE
    /\ attempts = 2
    /\ calls = 5
    /\ result.final = edited

\* C4: when the voice check of the report fails (too few first-person words,
\* or none in the opening window), the prompt of the round is the
\* narrator-voice rewrite, whatever else fails.
C4_VoiceFirst ==
    (pc = "repair" /\ VoiceFails(metrics, Targets(cfg))) => prompt = "ich_rewrite"

\* A round whose report has enough first-person words but none in the
\* opening, and fails coherence or structure too.
C4_Witness ==
    /\ pc = "repair"
    /\ metrics.style_metrics.first_person >= Targets(cfg).min_first_person
    /\ ~metrics.ich_intro_ok
    /\ ~metrics.coherence.ok \/ ~StructureAll(metrics.structure, metrics.seo_meta)
    /\ prompt = "ich_rewrite"

\* The other failures C5 names: address register, structure or metadata
\* length, word count outside [min, max].
C5_OtherFailure ==
    \/ AddressFails(metrics, Targets(cfg))
    \/ ~StructureAll(metrics.structure, metrics.seo_meta)
    \/ ReportedWords < cfg.min_words
    \/ ReportedWords > cfg.max_words

\* C5 as stated: when plausibility fails together with an address,
\* structure/metadata or length failure (voice and coherence passing), the
\* prompt of the round is not the plausibility fix.
C5_PlausibilityBelow ==
    (/\ pc = "repair"
     /\ ~VoiceFails(metrics, Targets(cfg))
     /\ metrics.coherence.ok
     /\ ~metrics.plausibility.ok
     /\ C5_OtherFailure) => prompt # "plausibility_fix"

\* C5, amended: plausibility ranks third, after voice and coherence: when
\* plausibility fails together with an address, structure/metadata or length
\* failure (voice and coherence passing), the prompt of the round is the
\* plausibility fix.
C5_PlausibilityThird ==
    (/\ pc = "repair"
     /\ ~VoiceFails(metrics, Targets(cfg))
     /\ metrics.coherence.ok
     /\ ~metrics.plausibility.ok
     /\ C5_OtherFailure) => prompt = "plausibility_fix"

\* A round whose report fails plausibility and the address register, and
\* passes voice and coherence.
C5_Witness ==
    /\ pc = "repair"
    /\ ~VoiceFails(metrics, Targets(cfg))
    /\ metrics.coherence.ok
    /\ ~metrics.plausibility.ok
    /\ metrics.style_metrics.formal_address > 0
    /\ prompt = "plausibility_fix"

\* C6: a document whose only failing check is a word count below the
\* minimum is judged false, and the prompt of its repair round is the
\* expansion.
C6_TooShort ==
    (/\ evals > 0
     /\ ReportedWords < cfg.min_words
     /\ AllButMinWords(metrics, Targets(cfg)))
    => /\ ~ok
       /\ (pc = "repair" => prompt = "expand")

\* A round on a document of 500 words against a minimum of 700, every other
\* check true.
C6_Witness ==
    /\ pc = "repair"
    /\ ReportedWords = 500
    /\ cfg.min_words = 700
    /\ AllButMinWords(metrics, Targets(cfg))
    /\ prompt = "expand"

\* C7: when the details state the window 12-14 minutes and the only time the
\* document mentions is 20 minutes, the timing check is false, the verdict
\* is false, and the prompt of the round is the plausibility fix unless a
\* check of higher rank (voice, coherence) fails too.
C7_TimeWindow ==
    (/\ evals > 0
     /\ cfg.details.mins = << <<12, 14>> >>
     /\ Mentions(Text(edited), Len(Text(edited))) = << <<20>> >>)
    => /\ ~metrics.plausibility.timing_ok
       /\ ~ok
       /\ (pc = "repair" /\ ~VoiceFails(metrics, Targets(cfg)) /\ metrics.coherence.ok
              => prompt = "plausibility_fix")

\* A round on a document whose only failure is that its one time, 20
\* minutes, lies outside the window 12-14.
C7_Witness ==
    /\ pc = "repair"
    /\ cfg.details.mins = << <<12, 14>> >>
    /\ metrics.plausibility.target_time = <<12, 14>>
    /\ metrics.plausibility.found_minutes = <<20>>
    /\ ~metrics.plausibility.timing_ok
    /\ ReportedWords >= cfg.min_words
    /\ ReportedWords <= cfg.max_words
    /\ StructureAll(metrics.structure, metrics.seo_meta)
    /\ ~AddressFails(metrics, Targets(cfg))
    /\ prompt = "plausibility_fix"

\* The conditions C8 lists, on the report of a run with the bounds 700 and
\* 1000.
C8_Listed ==
    /\ evals > 0
    /\ cfg.min_words = 700
    /\ cfg.max_words = 1000
    /\ 700 <= ReportedWords
    /\ ReportedWords <= 1000
    /\ metrics.style_metrics.first_person >= 6
    /\ metrics.style_metrics.second_person >= 2
    /\ metrics.style_metrics.formal_address = 0
    /\ ~metrics.style_metrics.has_banned
    /\ metrics.structure.h1_present
    /\ metrics.structure.h2_einleitung
    /\ metrics.structure.h2_bg_tipps
    /\ metrics.structure.h2_rezept
    /\ metrics.structure.h3_zutaten
    /\ metrics.structure.h3_schritte
    /\ metrics.structure.h3_zeiten
    /\ 6 <= metrics.structure.steps_count
    /\ metrics.structure.steps_count <= 10
    /\ metrics.seo_meta.title_ok
    /\ metrics.seo_meta.meta_ok
    /\ metrics.coherence.intro_has_dest
    /\ metrics.coherence.bg_has_dest

AllReported(m) ==
    /\ ~m.style_metrics.has_banned
    /\ m.structure.yaml_frontmatter
    /\ m.structure.h1_present
    /\ m.structure.h1_contains_primary_kw
    /\ m.structure.h2_einleitung
    /\ m.structure.h2_bg_tipps
    /\ m.structure.h2_rezept
    /\ m.structure.h3_zutaten
    /\ m.structure.h3_schritte
    /\ m.structure.h3_zeiten
    /\ m.structure.steps_ok
    /\ m.structure.kw_in_first100
    /\ m.seo_meta.title_ok
    /\ m.seo_meta.meta_ok
    /\ m.coherence.intro_has_dest
    /\ m.coherence.bg_has_dest
    /\ m.coherence.bridge_ok
    /\ m.coherence.ok
    /\ m.plausibility.equipment_ok
    /\ m.plausibility.oven_ok
    /\ m.plausibility.abwasch_ok
    /\ m.plausibility.timing_ok
    /\ m.plausibility.portions_ok
    /\ m.plausibility.ok
    /\ m.ich_intro_ok

\* C9: the verdict is true exactly when every numeric metric meets its
\* threshold and every boolean check of the report is true; no check of the
\* report is false while the verdict is true.
C9_VerdictIsConjunction ==
    evals > 0 =>
        (ok <=> /\ AllReported(metrics)
                /\ RatioAtLeast(metrics.style_metrics.ttr, Targets(cfg).min_ttr)
                /\ DeviationAtLeast(metrics.style_metrics.var_sentence_len,
                                    Targets(cfg).min_var_sentence_len)
                /\ metrics.style_metrics.first_person >= Targets(cfg).min_first_person
                /\ metrics.style_metrics.numbers >= Targets(cfg).min_numbers
                /\ cfg.min_words <= ReportedWords
                /\ ReportedWords <= cfg.max_words
                /\ metrics.style_metrics.second_person >= Targets(cfg).min_second_person
                /\ metrics.style_metrics.formal_address <= Targets(cfg).max_formal_address)

\* C10: a forced round is made only after 6 repair rounds with the verdict
\* still false, the first one only on a word count below the minimum; it
\* sends the expansion prompt whatever the report says; there are at most 2.
C10_ForcedExpansion ==
    [][forced' # forced =>
          /\ forced' = forced + 1
          /\ forced' <= 2
          /\ attempts = 6
          /\ ~ok
          /\ (forced = 0 => ReportedWords < cfg.min_words)
          /\ calls' = calls + 1
          /\ prompt' = "expand"]_vars

\* After a first forced round whose answer is long enough but has too few
\* first-person words, a second forced round is to come.
C10_Witness ==
    /\ pc = "force"
    /\ forced = 1
    /\ prompt = "expand"
    /\ ReportedWords >= cfg.min_words
    /\ VoiceFails(metrics, Targets(cfg))

\* A step in which a call was made and no answer came back: no document was
\* stored and nothing was evaluated.
FailedCall ==
    /\ calls' = calls + 1
    /\ evals' = evals
    /\ draft' = draft
    /\ cleaned' = cleaned
    /\ edited' = edited

\* C11: a failed generation-service call (draft, clean, edit, repair or
\* forced expansion) ends the run at that call: the exception leaves
\* generate_article, no step follows it (no further call, no retry), and no
\* result is returned.
C11_FailureAborts ==
    /\ [][FailedCall => pc' = "raised" /\ result' = NoResult /\ edited' = edited]_vars
    /\ [][pc # "raised"]_vars
    /\ [](pc = "raised" => result = NoResult)

\* A run ended by the failure of its second forced-expansion call.
C11_Witness ==
    /\ pc = "raised"
    /\ forced = 2
    /\ calls = 11
    /\ result = NoResult

\* Two lines with the same text (the count of new token types depends on
\* what precedes the line, not on its text).
SameLine(a, b) == [a EXCEPT !.types = 0] = [b EXCEPT !.types = 0]

\* What the structural normalizer guarantees of its output for the tips of
\* the background section: no tip occurs twice.
TipsDeduplicated(md) ==
    \A i, j \in DOMAIN md :
        (i < j /\ md[i].kind = "bullet" /\ md[i].tag \in {"tip", "tip2"})
        => ~SameLine(md[i], md[j])

NormalizedOf == [d \in Docs |-> TipsDeduplicated(Text(d))]

\* C12: every answer of the generation service is normalized before it is
\* evaluated, used for the next request, or returned: the document an
\* evaluation was made of is an output of the normalizer, so no tip occurs
\* twice in it.
C12_NormalizedBeforeEvaluation ==
    evals > 0 => NormalizedOf[edited]

\* The coherence verdict of the current document when the scene is
\* enforced: destination in the opening and at the start of the background,
\* bridge in the first sentence of the background.
SceneCoherent == coherence_checks(Text(edited), Dest(cfg), "story").ok

\* C14: the coherence verdict of an evaluation is enforced exactly when the
\* run asks for the story opening (bg_mode "story", or "auto" with the
\* heuristic choosing the story): it then requires the connected scene; in
\* a run that opens with guidance it passes trivially.
C14_CoherenceWhenStory ==
    evals > 0 /\ pc # "evaluate_raised" =>
        IF UseStory(cfg) THEN metrics.coherence.ok = SceneCoherent
        ELSE metrics.coherence.ok

\* C15: a repair round is one selector decision, then one request carrying
\* the remedy selected, then one evaluation: the round's prompt is the one
\* the selector chose from the last report, the request step makes exactly
\* one call with that prompt, every evaluation comes with exactly one call,
\* and after k rounds 3 + k calls and 1 + k evaluations were made (evals
\* counts the evaluations that returned; one that raises ends the run).
C15_OneCallPerRound ==
    /\ [](pc = "repair" =>
             /\ prompt = SelectRemedy(metrics, Targets(cfg))
             /\ calls = 2 + attempts
             /\ evals = attempts)
    /\ [](pc \in {"loop", "after_loop"} =>
             calls = 3 + attempts /\ evals = 1 + attempts)
    /\ [][pc = "repair" =>
             /\ calls' = calls + 1
             /\ prompt' = prompt
             /\ attempts' = attempts
             /\ \/ pc' \in {"raised", "evaluate_raised"} /\ evals' = evals
                \/ pc' = "loop" /\ evals' = evals + 1]_vars
    /\ [][attempts' # attempts /\ attempts' # 0 =>
             /\ attempts' = attempts + 1
             /\ pc' = "repair"
             /\ calls' = calls
             /\ evals' = evals]_vars
    /\ [][evals' # evals => evals' = evals + 1 /\ calls' = calls + 1]_vars
    /\ [](evals > 0 =>
             \/ calls = evals + 2
             \/ pc \in {"raised", "evaluate_raised"} /\ calls = evals + 3)

\* The loop after its third round.
C15_Witness ==
    /\ pc = "loop"
    /\ attempts = 3
    /\ calls = 6
    /\ evals = 4
    /\ prompt \notin {"draft", "clean", "edit", "none"}

\* The report has every category, and every category every result.
ReportComplete(m) ==
    /\ DOMAIN m = {"style_metrics", "structure", "seo_meta", "coherence",
                   "plausibility", "ich_intro_ok"}
    /\ DOMAIN m.style_metrics =
           {"ttr", "var_sentence_len", "first_person", "numbers", "words",
            "second_person", "formal_address", "has_banned"}
    /\ DOMAIN m.structure =
           {"yaml_frontmatter", "h1_present", "h1_contains_primary_kw",
            "h2_einleitung", "h2_bg_tipps", "h2_rezept", "h3_zutaten",
            "h3_schritte", "h3_zeiten", "steps_count", "steps_ok",
            "kw_in_first100"}
    /\ DOMAIN m.seo_meta = {"title_len", "title_ok", "meta_len", "meta_ok"}
    /\ DOMAIN m.coherence = {"intro_has_dest", "bg_has_dest", "bridge_ok", "ok"}
    /\ DOMAIN m.plausibility =
           {"ok", "equipment_ok", "oven_ok", "abwasch_ok", "timing_ok",
            "portions_ok", "target_time", "found_minutes", "portions"}
    /\ m.ich_intro_ok \in BOOLEAN
    /\ m.style_metrics.has_banned \in BOOLEAN
    /\ m.style_metrics.words \in Nat
    /\ \A k \in DOMAIN m.structure \ {"steps_count"} : m.structure[k] \in BOOLEAN
    /\ m.seo_meta.title_ok \in BOOLEAN /\ m.seo_meta.meta_ok \in BOOLEAN
    /\ \A k \in DOMAIN m.coherence : m.coherence[k] \in BOOLEAN
    /\ \A k \in {"ok", "equipment_ok", "oven_ok", "abwasch_ok", "timing_ok",
                  "portions_ok"} : m.plausibility[k] \in BOOLEAN

\* A step in which the service answered the edit, repair or expansion
\* request, so that evaluate_quality was called on the answer.
EvaluateCalled ==
    /\ calls' = calls + 1
    /\ pc \in {"edit", "repair", "force"}
    /\ pc' # "raised"

\* C16: every call of evaluate_quality returns a complete report, whatever
\* the verdict: every category is there with every one of its results, and
\* each is what its extractor measures on the document, also when an
\* earlier check failed.
C16_ReportComplete ==
    [][EvaluateCalled =>
          /\ evals' = evals + 1
          /\ ok' \in BOOLEAN
          /\ ReportComplete(metrics')
          /\ metrics'.structure = check_structure(Text(edited'), Pk(cfg))
          /\ metrics'.seo_meta = seo_lengths(Text(edited'))
          /\ metrics'.coherence = coherence_checks(Text(edited'), Dest(cfg), cfg.bg_mode)
          /\ metrics'.plausibility = plausibility_checks(Text(edited'), cfg.details)
          /\ metrics'.ich_intro_ok = ich_in_first100(Text(edited'))]_vars

\* What a malformed text lacks is a false check of its report, and its
\* verdict is false.
MalformedIsFalse ==
    evals > 0 /\ pc # "evaluate_raised" =>
        /\ ok \in BOOLEAN
        /\ ReportComplete(metrics)
        /\ edited = {"<empty>"} =>
              /\ ~ok
              /\ metrics.style_metrics.words = 0
              /\ \A k \in {"yaml_frontmatter", "h1_present", "h2_einleitung",
                            "h2_bg_tipps", "h2_rezept", "h3_zutaten", "h3_schritte",
                            "h3_zeiten", "steps_ok"} : ~metrics.structure[k]
              /\ ~metrics.seo_meta.title_ok /\ ~metrics.seo_meta.meta_ok
              /\ ~metrics.ich_intro_ok
        /\ edited = {"<no_header>"} =>
              /\ ~ok
              /\ ~metrics.structure.yaml_frontmatter
              /\ ~metrics.seo_meta.title_ok /\ ~metrics.seo_meta.meta_ok
        /\ edited \in DOMAIN MissingHeading =>
              ~ok /\ ~metrics.structure[MissingHeading[edited][3]]
        /\ "no_zutaten" \in edited =>
              ~ok /\ ~metrics.structure.h3_zutaten

\* C17: evaluate_quality returns a verdict and a complete report for every
\* text, malformed ones included, and what a text lacks is a false check of
\* the report and makes the verdict false: the empty text fails the
\* front-matter check, every heading check, the step count and both
\* metadata lengths; a text without front matter fails the front-matter
\* check and both metadata lengths; a text without a required heading
\* fails the check of that heading.
C17_TotalOnMalformed ==
    /\ [][EvaluateCalled => pc' # "evaluate_raised" /\ evals' = evals + 1]_vars
    /\ []MalformedIsFalse

(***************************************************************************)
(* The local-model pipeline: generate_article and main of                  *)
(* humanizer_pipeline_lang.py.  It makes the same three passes against a    *)
(* local generation service, judges the text with fails_heuristics (the     *)
(* lexical measures only) and repairs it in at most three rounds.  The run  *)
(* uses the variables of the pipeline above; forced stays 0.  The           *)
(* first-person words of the documents are "ich", "mich" and "mein", which  *)
(* the word lists of both files contain.                                    *)
(***************************************************************************)
LangConfigs ==
    { [min_words |-> 700, max_words |-> 1000],
      [min_words |-> 400, max_words |-> 600] }

LangTargets(c) ==
    [min_ttr |-> 45, min_var_sentence_len |-> 7, min_first_person |-> 3,
     min_numbers |-> 3, min_words |-> c.min_words, max_words |-> c.max_words,
     min_second_person |-> 4, max_formal_address |-> 0]

fails_heuristics(text, targets) ==
    LET results ==
            [ttr |-> type_token_ratio(text),
             var_sentence_len |-> variance_sentence_length(text),
             first_person |-> count_first_person(text),
             numbers |-> count_numbers(text),
             words |-> word_count(text),
             second_person |-> count_second_person(text),
             formal_address |-> count_formal_address(text),
             has_banned |-> has_banned_phrases(text)]
    IN  [fail |-> \/ results.has_banned
                  \/ ~RatioAtLeast(results.ttr, targets.min_ttr)
                  \/ ~DeviationAtLeast(results.var_sentence_len, targets.min_var_sentence_len)
                  \/ results.first_person < targets.min_first_person
                  \/ results.numbers < targets.min_numbers
                  \/ results.words < targets.min_words
                  \/ results.words > targets.max_words
                  \/ results.second_person < targets.min_second_person
                  \/ results.formal_address > targets.max_formal_address,
         results |-> results]

\* fails_heuristics on the documents of the model, computed once.
HeuristicsOf == [d \in Docs, c \in LangConfigs |-> fails_heuristics(Text(d), LangTargets(c))]

\* The prompt of a repair round, chosen from the last results.
LangSelectRemedy(m, c) ==
    IF m.formal_address > 0 \/ m.second_person < 4 THEN "du_rewrite"
    ELSE IF m.words < c.min_words THEN "expand"
    ELSE IF m.words > c.max_words THEN "condense"
    ELSE "polish"

LangMaxAttempts == 3

\* The value of a call of a function that ends without a return statement.
PyNone == [type |-> "NoneType"]

\* The keys main reads from the result.
ResultKeys == {"draft", "final", "metrics", "passed_heuristics"}

LangInit ==
    /\ cfg \in LangConfigs
    /\ pc = "draft"
    /\ draft = NoDoc
    /\ cleaned = NoDoc
    /\ edited = NoDoc
    /\ ok = FALSE
    /\ metrics = NoMetrics
    /\ attempts = 0
    /\ forced = 0
    /\ prompt = "none"
    /\ calls = 0
    /\ evals = 0
    /\ result = NoResult

\* call_ollama raised: main catches the exception and exits.
LangRaise ==
    /\ pc' = "exit"
    /\ UNCHANGED <<draft, cleaned, edited, ok, metrics, evals>>

\* fail, metrics = fails_heuristics(edited, targets) on the answer r
LangEvaluated(r) ==
    /\ ok' = ~HeuristicsOf[r, cfg].fail
    /\ metrics' = HeuristicsOf[r, cfg].results
    /\ evals' = evals + 1

LangDraft ==
    /\ pc = "draft"
    /\ prompt' = "draft"
    /\ calls' = calls + 1
    /\ \E r \in FirstDocs \cup {Failure} :
          IF r = Failure THEN LangRaise
          ELSE /\ draft' = r
               /\ pc' = "clean"
               /\ UNCHANGED <<cleaned, edited, ok, metrics, evals>>
    /\ UNCHANGED <<cfg, attempts, forced, result>>

LangClean ==
    /\ pc = "clean"
    /\ prompt' = "clean"
    /\ calls' = calls + 1
    /\ \E r \in CleanedDocs \cup {Failure} :
          IF r = Failure THEN LangRaise
          ELSE /\ cleaned' = r
               /\ pc' = "edit"
               /\ UNCHANGED <<draft, edited, ok, metrics, evals>>
    /\ UNCHANGED <<cfg, attempts, forced, result>>

\* The style edit, the first judgement, attempts = 0.
LangEdit ==
    /\ pc = "edit"
    /\ prompt' = "edit"
    /\ calls' = calls + 1
    /\ \E r \in Docs \cup {Failure} :
          IF r = Failure THEN LangRaise /\ UNCHANGED attempts
          ELSE /\ edited' = r
               /\ LangEvaluated(r)
               /\ attempts' = 0
               /\ pc' = "loop"
               /\ UNCHANGED <<draft, cleaned>>
    /\ UNCHANGED <<cfg, forced, result>>

\* while fail and attempts < 3: count the round and build its prompt; when
\* the loop ends the body of generate_article is at its end.
LangLoop ==
    /\ pc = "loop"
    /\ IF ~ok /\ attempts < LangMaxAttempts
       THEN /\ attempts' = attempts + 1
            /\ prompt' = LangSelectRemedy(metrics, cfg)
            /\ pc' = "repair"
       ELSE /\ pc' = "end"
            /\ UNCHANGED <<attempts, prompt>>
    /\ UNCHANGED <<cfg, draft, cleaned, edited, ok, metrics, forced, calls,
                   evals, result>>

LangRepair ==
    /\ pc = "repair"
    /\ calls' = calls + 1
    /\ \E r \in Docs \cup {Failure} :
          IF r = Failure THEN LangRaise
          ELSE /\ edited' = r
               /\ LangEvaluated(r)
               /\ pc' = "loop"
               /\ UNCHANGED <<draft, cleaned>>
    /\ UNCHANGED <<cfg, attempts, forced, prompt, result>>

\* The body of generate_article ends after the loop without a return
\* statement: the call evaluates to None, which main binds to result.
LangEnd ==
    /\ pc = "end"
    /\ result' = PyNone
    /\ pc' = "returned"
    /\ UNCHANGED <<cfg, draft, cleaned, edited, ok, metrics, attempts, forced, prompt,
                   calls, evals>>

\* main, outside its try block: result["final"] is written to the output
\* file, then the other keys are read; subscripting None raises TypeError.
LangMain ==
    /\ pc = "returned"
    /\ IF result = PyNone THEN pc' = "main_raised"
       ELSE IF ResultKeys \subseteq DOMAIN result THEN pc' = "saved"
       ELSE pc' = "main_raised"
    /\ UNCHANGED <<cfg, draft, cleaned, edited, ok, metrics, attempts, forced, prompt,
                   calls, evals, result>>

LangNext ==
    \/ LangDraft
    \/ LangClean
    \/ LangEdit
    \/ LangLoop
    \/ LangRepair
    \/ LangEnd
    \/ LangMain

LangSpec == LangInit /\ [][LangNext]_vars

\* C18: once the repair loop of the local-model pipeline has ended (the
\* text passed, or three rounds were used), generate_article returns a
\* result that carries the draft, the final document, the metrics and the
\* verdict, and main reads them by key without an error.
C18_LangReturnsResult ==
    /\ pc \in {"returned", "saved"} =>
          /\ DOMAIN result = ResultKeys
          /\ result.draft = draft
          /\ result.final = edited
          /\ result.metrics = metrics
          /\ result.passed_heuristics = ok
    /\ pc # "main_raised"

(***************************************************************************)
(* Two runs of generate_article side by side (two requests served by two    *)
(* threads of one process).  Every variable is a function of the run; the   *)
(* locals of a call of generate_article belong to that call, and the        *)
(* module-level names of the source are never assigned after import.  Here  *)
(* calls[i] is the log of run i's service calls, in order: the text each   *)
(* request carried and the answer that came.  A step of the pair is one    *)
(* step of one run, so the runs interleave at every call and between any   *)
(* two statements.                                                         *)
(***************************************************************************)
Runs == {1, 2}

\* The answers of the service in the pair: the reference article, the
\* article without its free paragraphs, and the overlong numeral.
PairDocs == {{}, {"short"}, {"<long_numeral>"}}

PairConfigs == {c \in Configs : c.min_words = 700 /\ c.max_words = 1000}

\* The state of one run as a record of its locals.
RunState(i) ==
    [cfg |-> cfg[i], pc |-> pc[i], draft |-> draft[i], cleaned |-> cleaned[i],
     edited |-> edited[i], ok |-> ok[i], metrics |-> metrics[i],
     attempts |-> attempts[i], forced |-> forced[i], prompt |-> prompt[i],
     calls |-> calls[i], evals |-> evals[i], result |-> result[i]]

\* The locals of a run that was just called with the inputs c.
InitialRun(c) ==
    [cfg |-> c, pc |-> "draft", draft |-> NoDoc, cleaned |-> NoDoc,
     edited |-> NoDoc, ok |-> FALSE, metrics |-> NoMetrics, attempts |-> 0,
     forced |-> 0, prompt |-> "none", calls |-> << >>, evals |-> 0,
     result |-> NoResult]

CallPcs == {"draft", "clean", "edit", "repair", "force"}

InternalPcs == {"loop", "after_loop", "return"}

\* A variant of RunEvaluated that hands out the report of the run's
\* earlier evaluation when there is one.
RunEvaluated_Cached(s, r) ==
    IF s.evals > 0 THEN [s EXCEPT !.edited = r, !.evals = @ + 1]
    ELSE [s EXCEPT !.edited = r,
                   !.ok = EvaluationOf[r, s.cfg].ok,
                   !.metrics = EvaluationOf[r, s.cfg].metrics,
                   !.evals = @ + 1]

\* edited = r; ok, metrics = evaluate_quality(edited, ...) in the run s
RunEvaluated(s, r) ==
    [s EXCEPT !.edited = r,
              !.ok = EvaluationOf[r, s.cfg].ok,
              !.metrics = EvaluationOf[r, s.cfg].metrics,
              !.evals = @ + 1]

\* A variant of PromptText in which the edit request carries the draft.
PromptText_EditFromDraft(s) ==
    CASE s.pc = "draft" -> NoDoc
      [] s.pc = "clean" -> s.draft
      [] s.pc = "edit" -> s.draft
      [] OTHER -> s.edited

\* The text the request of the call of the run s carries: none in the
\* draft request (it is built from the inputs), raw = draft in the clean
\* request, draft = cleaned in the edit request, base_text = edited in a
\* repair or expansion request.
PromptText(s) ==
    CASE s.pc = "draft" -> NoDoc
      [] s.pc = "clean" -> s.draft
      [] s.pc = "edit" -> s.cleaned
      [] OTHER -> s.edited

\* The call of the run s at a service call answered with a (Failure: the
\* call raises), together with the statements up to the next call or test.
CallStep(s, a) ==
    LET t == [s EXCEPT !.calls = Append(@, [text |-> PromptText(s), answer |-> a]),
                       !.prompt = CASE s.pc = "draft" -> "draft"
                                    [] s.pc = "clean" -> "clean"
                                    [] s.pc = "edit" -> "edit"
                                    [] s.pc = "force" -> "expand"
                                    [] OTHER -> @,
                       !.forced = IF s.pc = "force" THEN @ + 1 ELSE @]
    IN  IF a = Failure THEN [t EXCEPT !.pc = "raised"]
        ELSE IF s.pc = "draft" THEN [t EXCEPT !.draft = a, !.pc = "clean"]
        ELSE IF s.pc = "clean" THEN [t EXCEPT !.cleaned = a, !.pc = "edit"]
        ELSE IF EvaluationOf[a, s.cfg].raised
        THEN [t EXCEPT !.edited = a, !.pc = "evaluate_raised"]
        ELSE IF s.pc = "edit"
        THEN [RunEvaluated(t, a) EXCEPT !.attempts = 0, !.pc = "loop"]
        ELSE IF s.pc = "repair"
        THEN [RunEvaluated(t, a) EXCEPT !.pc = "loop"]
        ELSE [RunEvaluated(t, a) EXCEPT
                 !.pc = IF EvaluationOf[a, s.cfg].ok \/ t.forced >= ForceRounds
                        THEN "return" ELSE "force"]

\* The step of the run s at the while test, at the test after the loop and
\* at the return statement.
InternalStep(s) ==
    IF s.pc = "loop"
    THEN IF ~s.ok /\ s.attempts < MaxAttempts
         THEN [s EXCEPT !.attempts = @ + 1,
                        !.prompt = SelectRemedy(s.metrics, Targets(s.cfg)),
                        !.pc = "repair"]
         ELSE [s EXCEPT !.pc = "after_loop"]
    ELSE IF s.pc = "after_loop"
    THEN IF ~s.ok /\ s.metrics.style_metrics.words < s.cfg.min_words
         THEN [s EXCEPT !.pc = "force"]
         ELSE [s EXCEPT !.pc = "return"]
    ELSE [s EXCEPT !.result = [draft |-> s.draft, final |-> s.edited,
                               metrics |-> s.metrics,
                               passed_heuristics |-> s.ok],
                   !.pc = "returned"]

\* A variant of Assign in which the round counter is one module-level
\* counter that every run writes.
Assign_SharedCounter(i, t) ==
    /\ cfg' = [cfg EXCEPT ![i] = t.cfg]
    /\ pc' = [pc EXCEPT ![i] = t.pc]
    /\ draft' = [draft EXCEPT ![i] = t.draft]
    /\ cleaned' = [cleaned EXCEPT ![i] = t.cleaned]
    /\ edited' = [edited EXCEPT ![i] = t.edited]
    /\ ok' = [ok EXCEPT ![i] = t.ok]
    /\ metrics' = [metrics EXCEPT ![i] = t.metrics]
    /\ attempts' = [j \in Runs |-> t.attempts]
    /\ forced' = [forced EXCEPT ![i] = t.forced]
    /\ prompt' = [prompt EXCEPT ![i] = t.prompt]
    /\ calls' = [calls EXCEPT ![i] = t.calls]
    /\ evals' = [evals EXCEPT ![i] = t.evals]
    /\ result' = [result EXCEPT ![i] = t.result]

\* The run i stores its locals t; the locals of the other run stay.
Assign(i, t) ==
    /\ cfg' = [cfg EXCEPT ![i] = t.cfg]
    /\ pc' = [pc EXCEPT ![i] = t.pc]
    /\ draft' = [draft EXCEPT ![i] = t.draft]
    /\ cleaned' = [cleaned EXCEPT ![i] = t.cleaned]
    /\ edited' = [edited EXCEPT ![i] = t.edited]
    /\ ok' = [ok EXCEPT ![i] = t.ok]
    /\ metrics' = [metrics EXCEPT ![i] = t.metrics]
    /\ attempts' = [attempts EXCEPT ![i] = t.attempts]
    /\ forced' = [forced EXCEPT ![i] = t.forced]
    /\ prompt' = [prompt EXCEPT ![i] = t.prompt]
    /\ calls' = [calls EXCEPT ![i] = t.calls]
    /\ evals' = [evals EXCEPT ![i] = t.evals]
    /\ result' = [result EXCEPT ![i] = t.result]

PairInit ==
    \E c \in [Runs -> PairConfigs] :
        /\ cfg = c
        /\ pc = [i \in Runs |-> InitialRun(c[i]).pc]
        /\ draft = [i \in Runs |-> InitialRun(c[i]).draft]
        /\ cleaned = [i \in Runs |-> InitialRun(c[i]).cleaned]
        /\ edited = [i \in Runs |-> InitialRun(c[i]).edited]
        /\ ok = [i \in Runs |-> InitialRun(c[i]).ok]
        /\ metrics = [i \in Runs |-> InitialRun(c[i]).metrics]
        /\ attempts = [i \in Runs |-> InitialRun(c[i]).attempts]
        /\ forced = [i \in Runs |-> InitialRun(c[i]).forced]
        /\ prompt = [i \in Runs |-> InitialRun(c[i]).prompt]
        /\ calls = [i \in Runs |-> InitialRun(c[i]).calls]
        /\ evals = [i \in Runs |-> InitialRun(c[i]).evals]
        /\ result = [i \in Runs |-> InitialRun(c[i]).result]

\* One run at the call of its position, answered with a.
PairCall(i, at, answers) ==
    /\ pc[i] = at
    /\ \E a \in answers \cup {Failure} : Assign(i, CallStep(RunState(i), a))

PairInternal(i, at) ==
    /\ pc[i] = at
    /\ Assign(i, InternalStep(RunState(i)))

PairDraft == \E i \in Runs : PairCall(i, "draft", FirstDocs)

PairClean == \E i \in Runs : PairCall(i, "clean", CleanedDocs)

PairEdit == \E i \in Runs : PairCall(i, "edit", PairDocs)

PairLoop == \E i \in Runs : PairInternal(i, "loop")

PairRepair == \E i \in Runs : PairCall(i, "repair", PairDocs)

PairAfterLoop == \E i \in Runs : PairInternal(i, "after_loop")

PairForce == \E i \in Runs : PairCall(i, "force", PairDocs)

PairReturn == \E i \in Runs : PairInternal(i, "return")

PairNext ==
    \/ PairDraft
    \/ PairClean
    \/ PairEdit
    \/ PairLoop
    \/ PairRepair
    \/ PairAfterLoop
    \/ PairForce
    \/ PairReturn

PairSpec == PairInit /\ [][PairNext]_vars

\* The run i holds the verdict and report of an evaluation of edited[i].
HoldsReport(i) == evals[i] > 0 /\ pc[i] # "evaluate_raised"

\* What evaluate_quality is called with, other than the document.
EvaluateArgs(c) == <<Targets(c), Pk(c), Dest(c), c.details, c.bg_mode>>

RECURSIVE Settle(_)
Settle(s) == IF s.pc \in InternalPcs THEN Settle(InternalStep(s)) ELSE s

\* The run with inputs c alone, answered with log[k], log[k + 1], ...
RECURSIVE ReplayFrom(_, _, _)
ReplayFrom(s, log, k) ==
    IF k > Len(log) THEN Settle(s)
    ELSE ReplayFrom(CallStep(Settle(s), log[k].answer), log, k + 1)

Alone(c, log) == ReplayFrom(InitialRun(c), log, 1)

\* The step is a step of run i.
OwnStep(i) ==
    \/ /\ pc[i] \in CallPcs
       /\ \E a \in PairDocs \cup FirstDocs \cup CleanedDocs \cup {Failure} :
              RunState(i)' = CallStep(RunState(i), a)
    \/ /\ pc[i] \in InternalPcs
       /\ RunState(i)' = InternalStep(RunState(i))

\* C20: two interleaved runs do not affect each other: the locals of a run
\* (among them its document, report, round counter and forced-round
\* counter) change only in a step of that run, and a step of a run changes
\* nothing of the other; each run is where the run alone would be after the
\* same answers, and what it returns is what the run alone returns.
C20_RunsIndependent ==
    /\ [][\A i \in Runs :
             RunState(i)' # RunState(i) =>
                 /\ OwnStep(i)
                 /\ \A j \in Runs \ {i} : RunState(j)' = RunState(j)]_vars
    /\ [](\A i \in Runs :
             /\ Settle(RunState(i)) = Alone(cfg[i], calls[i])
             /\ pc[i] = "returned" => result[i] = Alone(cfg[i], calls[i]).result)

\* Run 1 has returned after three repair rounds while run 2, started with
\* other inputs, is in the middle of its forced rounds.
C20_Witness ==
    /\ pc[1] = "returned" /\ attempts[1] = 3 /\ result[1].passed_heuristics
    /\ result[1] = Alone(cfg[1], calls[1]).result
    /\ pc[2] = "force" /\ forced[2] = 1 /\ attempts[2] = MaxAttempts
    /\ cfg[1] # cfg[2]

\* C21: no run starts with an invalid target profile: every run that has
\* made a service call has min_words <= max_words.
C21_ValidProfile == calls > 0 => cfg.min_words <= cfg.max_words

\* C22: extract_section returns the whole content of the section: for a
\* document with the heading, every line between the heading and the next
\* second-level heading (or the end of the document); for a document
\* without the heading, the empty text.
C22_WholeSection ==
    edited \in Docs =>
        \A header \in {"Einleitung", "Hintergrund & Tipps"} :
            LET md == Text(edited)
                hs == {i \in DOMAIN md : md[i].kind = "h2" /\ md[i].name = header}
                h  == CHOOSE i \in hs : \A j \in hs : i <= j
                following == {i \in DOMAIN md : i > h /\ md[i].kind = "h2"}
                last == IF following = {} THEN Len(md)
                        ELSE (CHOOSE i \in following : \A j \in following : i <= j) - 1
            IN  IF hs = {} THEN extract_section(md, header) = << >>
                ELSE extract_section(md, header) = SubSeq(md, h + 1, last)

\* C23: whenever the block under the heading "### Zeiten & Portionen"
\* states a portion count, the report carries that count and portions_ok
\* is true iff the count is between 1 and 8; a count outside that range
\* makes the plausibility check and the verdict false; without a stated
\* count the report carries none and portions_ok is true.
C23_PortionsChecked ==
    evals > 0 /\ pc # "evaluate_raised" =>
        LET md == Text(edited)
            hs == {i \in DOMAIN md : md[i].kind = "h3" /\ md[i].name = "Zeiten & Portionen"}
            h  == CHOOSE i \in hs : \A j \in hs : i <= j
            following == {i \in DOMAIN md : i > h /\ md[i].kind \in {"h1", "h2", "h3"}}
            last == IF following = {} THEN Len(md)
                    ELSE (CHOOSE i \in following : \A j \in following : i <= j) - 1
            stating == IF hs = {} THEN {}
                       ELSE {i \in (h + 1)..last : md[i].portions # -1}
            stated == IF stating = {} THEN -1
                      ELSE md[CHOOSE i \in stating : \A j \in stating : i <= j].portions
        IN  /\ metrics.plausibility.portions = stated
            /\ metrics.plausibility.portions_ok = (stated = -1 \/ (1 <= stated /\ stated <= 8))
            /\ stated # -1 /\ ~(1 <= stated /\ stated <= 8) =>
                   ~metrics.plausibility.ok /\ ~ok

\* C24: the step count of the report counts the numbered lines of the
\* procedure section "### Schritt fuer Schritt" only: numbered lines of
\* other sections change neither steps_count nor steps_ok.
C24_StepsOfProcedureOnly ==
    evals > 0 /\ pc # "evaluate_raised" =>
        LET md == Text(edited)
            hs == {i \in DOMAIN md : md[i].kind = "h3" /\ md[i].name = "Schritt fuer Schritt"}
            h  == CHOOSE i \in hs : \A j \in hs : i <= j
            following == {i \in DOMAIN md : i > h /\ md[i].kind \in {"h1", "h2", "h3"}}
            last == IF following = {} THEN Len(md)
                    ELSE (CHOOSE i \in following : \A j \in following : i <= j) - 1
            inside == IF hs = {} THEN {}
                      ELSE {i \in (h + 1)..last : md[i].kind = "num"}
        IN  /\ metrics.structure.steps_count = Cardinality(inside)
            /\ metrics.structure.steps_ok =
                   (6 <= Cardinality(inside) /\ Cardinality(inside) <= StepsMax)

\* C25: steps_ok is true iff the document has between 6 and 10 numbered
\* steps, the range of the structure guide and of the structure repair
\* prompt: a document with 11 or 12 numbered steps fails the check.
C25_SixToTenSteps ==
    evals > 0 /\ pc # "evaluate_raised" =>
        /\ metrics.structure.steps_ok =
               (6 <= metrics.structure.steps_count /\ metrics.structure.steps_count <= 10)
        /\ metrics.structure.steps_count > 10 => ~ok

\* C26: the report of every evaluation carries the time window of the
\* details, its ends in order (none when the details state no time), and
\* timing_ok is true when there is no window and otherwise true iff some
\* minute value mentioned in the document lies within two minutes of the
\* window, so that a document without a time mention fails under a window.
C26_TimingChecked ==
    [][EvaluateCalled =>
          /\ pc' # "evaluate_raised"
          /\ LET pl == metrics'.plausibility
                 md == Text(edited')
                 values == UNION {UNION {{md[i].mins[k][e] : e \in DOMAIN md[i].mins[k]} :
                                            k \in DOMAIN md[i].mins} : i \in DOMAIN md}
             IN  /\ (pl.target_time = None) = (cfg.details.mins = << >>)
                 /\ pl.target_time # None => pl.target_time[1] <= pl.target_time[2]
                 /\ pl.timing_ok =
                        (\/ pl.target_time = None
                         \/ \E v \in values :
                                /\ pl.target_time[1] - TimeTolerance <= v
                                /\ v <= pl.target_time[2] + TimeTolerance)]_vars

\* C27: the passes are chained: from the second call on, the text a request
\* carries is the answer to the call before it (the clean request carries
\* the draft, the edit request the cleaned text, a repair or expansion
\* request the current document); the final document a run returns is the
\* answer to its last call, and the draft it returns is the answer to its
\* first call, which no later pass changes.
C27_PassChaining ==
    \A i \in Runs :
        /\ \A k \in 2..Len(calls[i]) : calls[i][k].text = calls[i][k - 1].answer
        /\ Len(calls[i]) > 0 /\ calls[i][1].answer # Failure =>
               draft[i] = calls[i][1].answer
        /\ pc[i] = "returned" =>
               /\ result[i].final = calls[i][Len(calls[i])].answer
               /\ result[i].draft = calls[i][1].answer

\* Run 1 has returned after a repair round: its draft, its cleaned text and
\* its two edited texts were four answers, each request after the first
\* carried the answer before it, and it returns the first answer as draft
\* and the fourth as final document.
C27_Witness ==
    /\ pc[1] = "returned"
    /\ Len(calls[1]) = 4
    /\ calls[1][1].answer = {"short"} /\ calls[1][2].text = {"short"}
    /\ calls[1][2].answer = {} /\ calls[1][3].text = {}
    /\ calls[1][3].answer = {"short"} /\ calls[1][4].text = {"short"}
    /\ calls[1][4].answer = {}
    /\ result[1].draft = {"short"} /\ result[1].final = {}

\* C28: the two metadata-length checks are bounded on both sides and
\* independent: title_ok is true iff the quoted value of seo_title has 10
\* to 60 characters, meta_ok iff that of meta_description has 50 to 155; a
\* field that is absent or has no quoted value has length 0 and fails; and
\* any other document with the same title value gets the same title
\* result whatever its description, and the other way round.
C28_MetadataLengths ==
    evals > 0 /\ pc # "evaluate_raised" =>
        LET md == Text(edited)
            seo == metrics.seo_meta
            titles == {i \in DOMAIN md : md[i].kind = "yaml" /\ md[i].name = "seo_title"}
            descs == {i \in DOMAIN md : md[i].kind = "yaml" /\ md[i].name = "meta_description"}
        IN  /\ seo.title_ok = (10 <= seo.title_len /\ seo.title_len <= 60)
            /\ seo.meta_ok = (50 <= seo.meta_len /\ seo.meta_len <= 155)
            /\ (titles = {} \/ \A i \in titles : md[i].qlen = 0) =>
                   seo.title_len = 0 /\ ~seo.title_ok
            /\ (descs = {} \/ \A i \in descs : md[i].qlen = 0) =>
                   seo.meta_len = 0 /\ ~seo.meta_ok
            /\ titles # {} => \E i \in titles : seo.title_len = md[i].qlen
            /\ descs # {} => \E i \in descs : seo.meta_len = md[i].qlen
            /\ \A d \in Docs :
                   ~EvaluationOf[d, cfg].raised =>
                       LET other == EvaluationOf[d, cfg].metrics.seo_meta
                       IN  /\ other.title_len = seo.title_len => other.title_ok = seo.title_ok
                           /\ other.meta_len = seo.meta_len => other.meta_ok = seo.meta_ok

\* An evaluated article whose title has 61 characters and whose
\* description is as it should be: the title check fails, the description
\* check passes, the verdict is false.
C28_Witness ==
    /\ evals > 0 /\ pc = "loop"
    /\ edited = {"<title_61>"}
    /\ metrics.seo_meta.title_len = 61 /\ ~metrics.seo_meta.title_ok
    /\ metrics.seo_meta.meta_len = 120 /\ metrics.seo_meta.meta_ok
    /\ ~ok

\* C29: the selector and the evaluator agree on what fails: in every
\* repair round the verdict is false and the remedy chosen answers a check
\* that is false in the report the round was built from; the general
\* polish is chosen only when every failing check is among banned phrases,
\* type-token ratio, sentence-length deviation and number count, of which
\* one then fails.
C29_RemedyMatchesFailure ==
    pc = "repair" =>
        LET sm == metrics.style_metrics
            stc == metrics.structure
            seo == metrics.seo_meta
            t == Targets(cfg)
            voice == sm.first_person < t.min_first_person \/ ~metrics.ich_intro_ok
            address == sm.formal_address > t.max_formal_address
                       \/ sm.second_person < t.min_second_person
            layout == \/ ~stc.yaml_frontmatter \/ ~stc.h1_present
                      \/ ~stc.h2_einleitung \/ ~stc.h2_bg_tipps \/ ~stc.h2_rezept
                      \/ ~stc.h3_zutaten \/ ~stc.h3_schritte \/ ~stc.h3_zeiten
                      \/ ~stc.steps_ok \/ ~stc.kw_in_first100
                      \/ ~seo.title_ok \/ ~seo.meta_ok
            length == ~(t.min_words <= sm.words /\ sm.words <= t.max_words)
            lexical == \/ sm.has_banned
                       \/ ~RatioAtLeast(sm.ttr, t.min_ttr)
                       \/ ~DeviationAtLeast(sm.var_sentence_len, t.min_var_sentence_len)
                       \/ sm.numbers < t.min_numbers
        IN  /\ ~ok
            /\ CASE prompt = "ich_rewrite" -> voice
                 [] prompt = "coherence_fix" -> ~metrics.coherence.ok
                 [] prompt = "plausibility_fix" -> ~metrics.plausibility.ok
                 [] prompt = "du_rewrite" -> address
                 [] prompt = "structure_fix" -> layout
                 [] prompt = "expand" -> length /\ sm.words < t.min_words
                 [] prompt = "condense" -> length /\ sm.words > t.max_words
                 [] prompt = "polish" ->
                        /\ lexical
                        /\ ~voice /\ metrics.coherence.ok /\ metrics.plausibility.ok
                        /\ ~address /\ ~layout /\ ~length
                 [] OTHER -> FALSE

\* A fourth repair round built with the general polish: the only failing
\* check of the report is the banned phrase.
C29_Witness ==
    /\ pc = "repair" /\ attempts = 4 /\ prompt = "polish"
    /\ edited = {"banned"}
    /\ metrics.style_metrics.has_banned /\ ~ok

\* C30: the result is consistent: a run that returns gives back the verdict
\* and report of its last evaluation, which was made on the final document
\* it returns, and it made two evaluations fewer than calls; every call
\* from the third on is made when every earlier such call has been
\* evaluated, and its answer is evaluated once in the same step.
C30_ResultConsistent ==
    /\ [](pc = "returned" =>
             /\ result.final = edited
             /\ result.metrics = metrics
             /\ result.passed_heuristics = ok
             /\ result.metrics = EvaluationOf[result.final, cfg].metrics
             /\ result.passed_heuristics = EvaluationOf[result.final, cfg].ok
             /\ evals = calls - 2)
    /\ [][calls' # calls /\ calls >= 2 =>
             /\ calls' = calls + 1
             /\ evals = calls - 2
             /\ pc' \notin {"raised", "evaluate_raised"} =>
                    /\ evals' = evals + 1
                    /\ metrics' = EvaluationOf[edited', cfg].metrics
                    /\ ok' = EvaluationOf[edited', cfg].ok]_vars
    /\ [][evals' # evals => calls' = calls + 1 /\ calls >= 2]_vars

\* A run returned after three repair rounds: six calls, four evaluations,
\* and the verdict true of the last answer.
C30_Witness ==
    /\ pc = "returned" /\ calls = 6 /\ evals = 4 /\ attempts = 3
    /\ result.final = {} /\ result.passed_heuristics
    /\ result.metrics = EvaluationOf[{}, cfg].metrics

=============================================================================
